---------------------------- MODULE Spec2Model ----------------------------
(***************************************************************************)
(* Model of fuse_examples/imaging/oai_example/downstream/segmentation.py:  *)
(* the hydra entry point main(cfg), step by step, together with the        *)
(* things it acts on: the file system under results_dir, the ClearML       *)
(* server, the checkpoint file, the CSV file and the random generator.     *)
(* Strings that the code parses or matches (paths, glob patterns, state    *)
(* dict keys, task ids) are sequences of one-character strings.            *)
(***************************************************************************)
EXTENDS Integers, Sequences, FiniteSets, TLC

VARIABLES
    proc,       \* proc[p]: the locals and the position of run p of main
    dirs,       \* the directories that exist
    files,      \* the regular files that exist
    dirUsers,   \* dirUsers[d]: the runs that wrote their outputs under d
    tasks,      \* the tasks of the ClearML server: records [id, name]
    started,    \* the number of runs of main started so far
    ckpt,       \* the entries of the checkpoint file a weights path names
    csv,        \* the fold column of the CSV file at cfg.csv_path
    cfgFolds    \* cfg.train_folds, cfg.val_folds, cfg.test_folds

vars == <<proc, dirs, files, dirUsers, tasks, started, ckpt, csv, cfgFolds>>

-----------------------------------------------------------------------------
(* Bounds of the model *)

MaxRuns == 2        \* runs of main started in one behaviour
MaxEntries == 2     \* entries of a checkpoint's dict
MaxRows == 2        \* rows of the CSV file
NumFolds == 2       \* distinct fold values

Procs == {1, 2}
None == "None"

-----------------------------------------------------------------------------
(* Strings *)

Slash == "/"
Dot == "."
TeacherPrefix ==
    <<"t","e","a","c","h","e","r","_","b","a","c","k","b","o","n","e",".">>
ModulePrefix ==
    <<"m","o","d","u","l","e",".","b","a","c","k","b","o","n","e",".">>
CmlidExt == <<".","c","m","l","i","d">>
CmlidPattern == <<"/","*",".","c","m","l","i","d">>

\* s[i..] starts with pre
StartsAt(s, i, pre) ==
    /\ i + Len(pre) - 1 <= Len(s)
    /\ \A j \in 1..Len(pre) : s[i + j - 1] = pre[j]

\* old in s
Contains(s, old) == \E i \in 1..(Len(s) + 1) : StartsAt(s, i, old)

\* s.replace(old, ""): the occurrences of old found in one scan from the
\* left are dropped; what the dropping brings together is not scanned again
RECURSIVE Replace(_, _)
Replace(s, old) ==
    IF s = <<>> THEN <<>>
    ELSE IF StartsAt(s, 1, old)
         THEN Replace(SubSeq(s, Len(old) + 1, Len(s)), old)
         ELSE <<Head(s)>> \o Replace(Tail(s), old)

\* s.split(sep) for a one-character sep
RECURSIVE Split(_, _)
Split(s, sep) ==
    IF \A i \in 1..Len(s) : s[i] # sep THEN <<s>>
    ELSE LET i == CHOOSE k \in 1..Len(s) :
                      /\ s[k] = sep
                      /\ \A j \in 1..(k - 1) : s[j] # sep
         IN  <<SubSeq(s, 1, i - 1)>> \o Split(SubSeq(s, i + 1, Len(s)), sep)

\* os.path.join(a, b)
Join(a, b) ==
    IF b # <<>> /\ Head(b) = Slash THEN b
    ELSE IF a = <<>> \/ a[Len(a)] = Slash THEN a \o b
    ELSE a \o <<Slash>> \o b

-----------------------------------------------------------------------------
(* glob.glob, as main uses it *)

\* glob.has_magic: the name holds one of * ? [
HasMagic(s) == \E i \in 1..Len(s) : s[i] \in {"*", "?", "["}

\* fnmatch.translate's scan of a bracket expression that starts at pat[1]:
\* the index of the "]" that closes it, or 0 when none does and the "[" is
\* an ordinary character
ClassEnd(pat) ==
    LET n == Len(pat)
        j1 == IF 2 <= n /\ pat[2] = "!" THEN 3 ELSE 2
        j2 == IF j1 <= n /\ pat[j1] = "]" THEN j1 + 1 ELSE j1
        closing == {j \in j2..n : pat[j] = "]"}
    IN  IF closing = {} THEN 0
        ELSE CHOOSE j \in closing : \A k \in closing : j <= k

\* c matches the bracket expression whose inside is stuff (names of this
\* model hold no "-", so stuff lists its characters)
InClass(c, stuff) ==
    IF stuff[1] = "!"
    THEN \A i \in 2..Len(stuff) : stuff[i] # c
    ELSE \E i \in 1..Len(stuff) : stuff[i] = c

\* fnmatch.fnmatchcase(name, pat)
RECURSIVE FnMatch(_, _)
FnMatch(pat, name) ==
    IF pat = <<>> THEN name = <<>>
    ELSE LET c == Head(pat) IN
         IF c = "*"
         THEN \E k \in 0..Len(name) :
                  FnMatch(Tail(pat), SubSeq(name, k + 1, Len(name)))
         ELSE IF c = "?"
         THEN name # <<>> /\ FnMatch(Tail(pat), Tail(name))
         ELSE IF c = "[" /\ ClassEnd(pat) > 0
         THEN /\ name # <<>>
              /\ InClass(Head(name), SubSeq(pat, 2, ClassEnd(pat) - 1))
              /\ FnMatch(SubSeq(pat, ClassEnd(pat) + 1, Len(pat)), Tail(name))
         ELSE name # <<>> /\ Head(name) = c /\ FnMatch(Tail(pat), Tail(name))

\* One path component against one pattern component: glob matches a
\* component with magic by fnmatch (hidden names only for a pattern that
\* starts with a dot) and one without magic literally
ComponentMatch(pat, name) ==
    IF HasMagic(pat)
    THEN /\ FnMatch(pat, name)
         /\ (name # <<>> /\ Head(name) = Dot) => (Head(pat) = Dot)
    ELSE pat = name

\* glob.glob(pattern): the existing paths that match, component by
\* component; the order of the list is the directory's and is not modelled
Glob(pattern, existing) ==
    LET pats == Split(pattern, Slash) IN
    {f \in existing :
        LET names == Split(f, Slash) IN
        /\ Len(names) = Len(pats)
        /\ \A i \in 1..Len(pats) : ComponentMatch(pats[i], names[i])}

\* os.makedirs(path): path and the parents it lacks
Parents(path) ==
    {SubSeq(path, 1, i - 1) : i \in {j \in 2..Len(path) : path[j] = Slash}}

\* the marker file of a task: os.path.join(model_dir, f"{task.id}.cmlid")
MarkerPath(model_dir, id) == Join(model_dir, id \o CmlidExt)

\* TaskIdOf taking the last part of the file name, not the first
TaskIdOf_LastPart(path) ==
    LET base == Split(path, Slash)
        parts == Split(base[Len(base)], Dot)
    IN  parts[Len(parts)]

\* glob(...)[0].split("/")[-1].split(".")[0]
TaskIdOf(path) ==
    LET base == Split(path, Slash) IN Split(base[Len(base)], Dot)[1]

-----------------------------------------------------------------------------
(* The configuration *)

ResultsDir == <<"r">>                               \* cfg.results_dir
ExperimentNames == {<<"a">>, <<"[", "a", "]">>}     \* cfg.experiment
ModelDirs == {Join(ResultsDir, e) : e \in ExperimentNames}

WeightKeys ==
    {"suprem_weights", "dino_weights", "resume_training_from", "test_ckpt"}

Configs ==
    [suprem_weights : {None, "suprem.pth"},
     dino_weights : {None, "dino.ckpt"},
     resume_training_from : {None, "last.ckpt"},
     test_ckpt : {None, "best.ckpt"},
     clearml : BOOLEAN,
     experiment : ExperimentNames,
     backbone : {"unet3d", "resnet"}]

\* the configurations of the runs that overlap in time
ConcConfigs ==
    {c \in Configs : /\ c.clearml
                     /\ c.backbone = "unet3d"
                     /\ c.suprem_weights = None
                     /\ c.dino_weights = None
                     /\ c.resume_training_from = None}

\* the sum of line 41: how many of the four paths are not None
NumWeightsSet(c) == Cardinality({k \in WeightKeys : c[k] # None})

\* WeightsAssertion with the bound off by one
WeightsAssertion_AtMostTwo(c) == NumWeightsSet(c) <= 2

\* the condition of the assert of lines 40-51
WeightsAssertion(c) == NumWeightsSet(c) <= 1

Sets == {"train", "val", "test"}
Folds == 0..(NumFolds - 1)

-----------------------------------------------------------------------------
(* The backbone's weights *)

KeyW == <<"w">>
KeyB == <<"b">>
BackboneKeys == {KeyW, KeyB}       \* the keys of backbone.state_dict()
RandVals == {0, 1}                 \* what a random initialisation draws
CkptVals == {2, 3}                 \* the values a checkpoint holds

\* the keys a checkpoint can hold
CkptKeys ==
    {KeyW, KeyB,
     TeacherPrefix \o KeyW, TeacherPrefix \o KeyB, KeyW \o TeacherPrefix,
     ModulePrefix \o KeyW, ModulePrefix \o KeyB,
     <<"t","e","a","c","h","e","r","_","b">> \o TeacherPrefix
         \o <<"a","c","k","b","o","n","e",".","w">>}

\* DictPut that keeps the value a key already has
DictPut_KeepFirst(d, k, v) ==
    [x \in (DOMAIN d) \cup {k} |-> IF x \in DOMAIN d THEN d[x] ELSE v]

\* d with d[k] = v, as a dict comprehension or an assignment sets it
DictPut(d, k, v) ==
    [x \in (DOMAIN d) \cup {k} |-> IF x = k THEN v ELSE d[x]]

\* lines 88-92: {k.replace("teacher_backbone.", ""): v
\*               for k, v in state_dict["state_dict"].items()
\*               if "teacher_backbone." in k}, entry after entry
RECURSIVE DinoStateDict(_)
DinoStateDict(entries) ==
    IF entries = <<>> THEN <<>>
    ELSE LET n == Len(entries)
             rest == DinoStateDict(SubSeq(entries, 1, n - 1))
             e == entries[n]
         IN  IF Contains(e.k, TeacherPrefix)
             THEN DictPut(rest, Replace(e.k, TeacherPrefix), e.v)
             ELSE rest

\* lines 97-100: {k.replace("module.backbone.", ""): v
\*                for k, v in state_dict["net"].items()}
RECURSIVE SupremStateDict(_)
SupremStateDict(entries) ==
    IF entries = <<>> THEN <<>>
    ELSE LET n == Len(entries)
             rest == SupremStateDict(SubSeq(entries, 1, n - 1))
             e == entries[n]
         IN  DictPut(rest, Replace(e.k, ModulePrefix), e.v)

\* lines 83-102: the state dict main loads, for configuration c, the
\* checkpoint's entries and the backbone's weights as constructed
StateDictFor(c, entries, own) ==
    IF c.dino_weights # None THEN DinoStateDict(entries)
    ELSE IF c.suprem_weights # None THEN SupremStateDict(entries)
    ELSE own

\* line 104: backbone.load_state_dict(state_dict, strict=False) sets the
\* weights the state dict names and ignores its other keys
LoadStateDict(own, sd) ==
    [k \in DOMAIN own |-> IF k \in DOMAIN sd THEN sd[k] ELSE own[k]]

-----------------------------------------------------------------------------
(* The data frames *)

\* IsIn with the mask negated: the rows whose fold is not in folds
IsIn_Negated(column, folds) ==
    SelectSeq([i \in 1..Len(column) |-> i], LAMBDA i : column[i] \notin folds)

\* line 139: df_all[df_all.fold.isin(folds)], as the indices (1..) of the
\* rows kept, in the order of the file
RECURSIVE IsIn(_, _)
IsIn(column, folds) ==
    IF column = <<>> THEN <<>>
    ELSE LET n == Len(column)
             rest == IsIn(SubSeq(column, 1, n - 1), folds)
         IN  IF column[n] \in folds THEN Append(rest, n) ELSE rest

-----------------------------------------------------------------------------
(* A run of main *)

SeedValue == 1234
HexDigits == <<"0", "1", "2", "3", "4", "5", "6", "7", "8", "9">>

\* the id the ClearML server gives the n-th task it creates
IdOf(n) == <<"c", HexDigits[n]>>

NoCfg ==
    [suprem_weights |-> None, dino_weights |-> None,
     resume_training_from |-> None, test_ckpt |-> None,
     clearml |-> FALSE, experiment |-> <<>>, backbone |-> "unet3d"]

\* the locals of main before main is entered
IdleRun ==
    [pc |-> "idle", cfg |-> NoCfg, run |-> 0, model_dir |-> <<>>,
     found |-> {}, task |-> <<>>, clearml_task_id |-> <<>>,
     own |-> <<>>, state_dict |-> <<>>, backbone |-> <<>>,
     seeded |-> FALSE, dfs |-> <<>>, ckpt_path |-> None,
     calls |-> <<>>, err |-> ""]

\* a call main makes, as the log of the run keeps it
Call(op, args) == [op |-> op, args |-> args]

Raise(r, error) == [r EXCEPT !.pc = "failed", !.err = error]

\* lines 36-38: main is entered with configuration c
Start(p, c) ==
    /\ proc[p].pc \in {"idle", "done", "failed"}
    /\ started < MaxRuns
    /\ started' = started + 1
    /\ proc' = [proc EXCEPT ![p] =
                   [IdleRun EXCEPT !.pc = "assert", !.cfg = c,
                                   !.run = started + 1]]
    /\ UNCHANGED <<dirs, files, dirUsers, tasks, ckpt, csv, cfgFolds>>

\* lines 40-51: the assert on the four weights/ckpt paths
CheckWeights(p) ==
    LET r == proc[p] IN
    /\ r.pc = "assert"
    /\ proc' = [proc EXCEPT ![p] =
                   IF WeightsAssertion(r.cfg)
                   THEN [r EXCEPT !.pc = "isdir"]
                   ELSE Raise(r, "AssertionError")]
    /\ UNCHANGED <<dirs, files, dirUsers, tasks, started, ckpt, csv, cfgFolds>>

\* lines 53-54: model_dir and the test os.path.isdir(model_dir)
IsDir(p) ==
    LET r == proc[p]
        model_dir == Join(ResultsDir, r.cfg.experiment)
    IN
    /\ r.pc = "isdir"
    /\ proc' = [proc EXCEPT ![p] =
                   [r EXCEPT !.model_dir = model_dir,
                             !.pc = IF model_dir \in dirs
                                    THEN "glob1" ELSE "makedirs"]]
    /\ UNCHANGED <<dirs, files, dirUsers, tasks, started, ckpt, csv, cfgFolds>>

\* line 55: os.makedirs(model_dir), which raises when model_dir exists
MakeDirs(p) ==
    LET r == proc[p] IN
    /\ r.pc = "makedirs"
    /\ IF r.model_dir \in dirs
       THEN /\ proc' = [proc EXCEPT ![p] = Raise(r, "FileExistsError")]
            /\ UNCHANGED dirs
       ELSE /\ dirs' = dirs \cup {r.model_dir} \cup Parents(r.model_dir)
            /\ proc' = [proc EXCEPT ![p] =
                   [r EXCEPT !.pc = "glob1",
                             !.calls = Append(@, Call("os.makedirs",
                                                      <<r.model_dir>>))]]
    /\ UNCHANGED <<files, dirUsers, tasks, started, ckpt, csv, cfgFolds>>

\* lines 57-60: with clearml, len(glob(model_dir + "/*.cmlid")) == 0
Glob1(p) ==
    LET r == proc[p]
        found == Glob(r.model_dir \o CmlidPattern, files \cup dirs)
    IN
    /\ r.pc = "glob1"
    /\ proc' = [proc EXCEPT ![p] =
                   IF ~r.cfg.clearml THEN [r EXCEPT !.pc = "model"]
                   ELSE [r EXCEPT !.found = found,
                                  !.pc = IF found = {}
                                         THEN "create" ELSE "glob2"]]
    /\ UNCHANGED <<dirs, files, dirUsers, tasks, started, ckpt, csv, cfgFolds>>

\* lines 61-63: Task.create(project_name, task_name=cfg.experiment)
TaskCreate(p) ==
    LET r == proc[p]
        id == IdOf(Cardinality(tasks) + 1)
    IN
    /\ r.pc = "create"
    /\ tasks' = tasks \cup {[id |-> id, name |-> r.cfg.experiment]}
    /\ proc' = [proc EXCEPT ![p] =
                   [r EXCEPT !.task = id, !.pc = "marker",
                             !.calls = Append(@, Call("Task.create",
                                                      <<r.cfg.experiment>>))]]
    /\ UNCHANGED <<dirs, files, dirUsers, started, ckpt, csv, cfgFolds>>

\* lines 64-65: the empty marker file <model_dir>/<task.id>.cmlid
WriteMarker(p) ==
    LET r == proc[p] IN
    /\ r.pc = "marker"
    /\ files' = files \cup {MarkerPath(r.model_dir, r.task)}
    /\ proc' = [proc EXCEPT ![p] =
                   [r EXCEPT !.pc = "glob2",
                             !.calls = Append(@, Call("open",
                                 <<MarkerPath(r.model_dir, r.task)>>))]]
    /\ UNCHANGED <<dirs, dirUsers, tasks, started, ckpt, csv, cfgFolds>>

\* line 67: glob(model_dir + "/*.cmlid")[0].split("/")[-1].split(".")[0];
\* which match comes first is the directory's order, so any can
Glob2(p) ==
    LET r == proc[p]
        found == Glob(r.model_dir \o CmlidPattern, files \cup dirs)
    IN
    /\ r.pc = "glob2"
    /\ IF found = {}
       THEN proc' = [proc EXCEPT ![p] =
                        Raise([r EXCEPT !.found = found], "IndexError")]
       ELSE \E f \in found :
                proc' = [proc EXCEPT ![p] =
                            [r EXCEPT !.found = found, !.pc = "init",
                                      !.clearml_task_id = TaskIdOf(f)]]
    /\ UNCHANGED <<dirs, files, dirUsers, tasks, started, ckpt, csv, cfgFolds>>

\* lines 68-77: Task.init(..., reuse_last_task_id=clearml_task_id, ...)
TaskInit(p) ==
    LET r == proc[p] IN
    /\ r.pc = "init"
    /\ proc' = [proc EXCEPT ![p] =
                   [r EXCEPT !.pc = "model",
                             !.calls = Append(@, Call("Task.init",
                                                      <<r.clearml_task_id>>))]]
    /\ UNCHANGED <<dirs, files, dirUsers, tasks, started, ckpt, csv, cfgFolds>>

\* the calls of lines 80-115, in the order main makes them
ModelCalls(c) ==
    <<Call("UNet3D", <<>>)>>
    \o (IF c.dino_weights # None
        THEN <<Call("torch.load", <<c.dino_weights>>)>>
        ELSE IF c.suprem_weights # None
        THEN <<Call("torch.load", <<c.suprem_weights>>)>>
        ELSE <<>>)
    \o <<Call("load_state_dict", <<>>), Call("nn.Conv3d", <<>>),
         Call("HeadDenseSegmentation", <<>>), Call("ModelMultiHead", <<>>)>>

\* the weights a seeded construction of the backbone gives
SeededInit == [k \in BackboneKeys |-> 0]

\* lines 80-115: the backbone, its weights and the head. A backbone other
\* than "unet3d" leaves conv_inputs unbound, and line 110 raises
BuildModel(p) ==
    LET r == proc[p] IN
    /\ r.pc = "model"
    /\ IF r.cfg.backbone # "unet3d"
       THEN proc' = [proc EXCEPT ![p] = Raise(r, "NameError")]
       ELSE \E own \in [BackboneKeys -> RandVals] :
                /\ r.seeded => own = SeededInit
                /\ LET sd == StateDictFor(r.cfg, ckpt, own) IN
                   proc' = [proc EXCEPT ![p] =
                       [r EXCEPT !.own = own, !.state_dict = sd,
                                 !.backbone = LoadStateDict(own, sd),
                                 !.pc = "logger",
                                 !.calls = @ \o ModelCalls(r.cfg)]]
    /\ UNCHANGED <<dirs, files, dirUsers, tasks, started, ckpt, csv, cfgFolds>>

\* line 125: fuse_logger_start(output_path=model_dir, ...): from here on
\* the run writes its outputs under model_dir
StartLogger(p) ==
    LET r == proc[p] IN
    /\ r.pc = "logger"
    /\ dirUsers' = [dirUsers EXCEPT ![r.model_dir] = @ \cup {r.run}]
    /\ proc' = [proc EXCEPT ![p] =
                   [r EXCEPT !.pc = "seed",
                             !.calls = Append(@, Call("fuse_logger_start",
                                                      <<r.model_dir>>))]]
    /\ UNCHANGED <<dirs, files, tasks, started, ckpt, csv, cfgFolds>>

\* lines 129-132: Seed.set_seed(1234, deterministic_mode=True)
SetSeed(p) ==
    LET r == proc[p] IN
    /\ r.pc = "seed"
    /\ proc' = [proc EXCEPT ![p] =
                   [r EXCEPT !.pc = "data", !.seeded = TRUE,
                             !.calls = Append(@, Call("Seed.set_seed",
                                                      <<SeedValue, TRUE>>))]]
    /\ UNCHANGED <<dirs, files, dirUsers, tasks, started, ckpt, csv, cfgFolds>>

\* the calls of lines 136-177, in the order main makes them
DataCalls(dfs) ==
    <<Call("pd.read_csv", <<>>),
      Call("SegOAI.dataset", <<"train", dfs["train"]>>),
      Call("SegOAI.dataset", <<"val", dfs["val"]>>),
      Call("SegOAI.dataset", <<"test", dfs["test"]>>),
      Call("DataLoader", <<"train", "shuffle">>),
      Call("DataLoader", <<"val", "in order">>),
      Call("DataLoader", <<"test", "in order">>)>>

\* lines 136-177: the data frames of the three sets, their datasets and
\* their data loaders
PrepareData(p) ==
    LET r == proc[p]
        dfs == [s \in Sets |-> IsIn(csv, cfgFolds[s])]
    IN
    /\ r.pc = "data"
    /\ proc' = [proc EXCEPT ![p] =
                   [r EXCEPT !.pc = "trainer", !.dfs = dfs,
                             !.calls = @ \o DataCalls(dfs)]]
    /\ UNCHANGED <<dirs, files, dirUsers, tasks, started, ckpt, csv, cfgFolds>>

\* what reading cfg.ckpt_path can give: the key is not one of the four the
\* assert names, and the configuration file decides whether it exists
CfgCkptPath == {"missing", None, "other.ckpt"}

\* lines 181-273: loss, metrics, optimizer, ckpt_path, the lightning module
\* and the trainer
BuildTrainer(p) ==
    LET r == proc[p] IN
    /\ r.pc = "trainer"
    /\ \E v \in CfgCkptPath :
          /\ r.cfg.resume_training_from = None => v = None
          /\ proc' = [proc EXCEPT ![p] =
                 IF v = "missing" THEN Raise(r, "ConfigAttributeError")
                 ELSE [r EXCEPT !.pc = "run", !.ckpt_path = v,
                                !.calls = @ \o
                                    <<Call("LightningModuleDefault",
                                           <<r.model_dir>>),
                                      Call("pl.Trainer", <<r.model_dir>>)>>]]
    /\ UNCHANGED <<dirs, files, dirUsers, tasks, started, ckpt, csv, cfgFolds>>

\* TrainerCalls without the else: the evaluation falls through to training
TrainerCalls_FallThrough(c, ckpt_path) ==
    (IF c.test_ckpt # None
     THEN <<Call("validate", <<"test_dl", c.test_ckpt>>)>>
     ELSE <<>>)
    \o <<Call("fit", <<"train_dl", "val_dl", ckpt_path>>)>>

\* lines 274-279: the calls main makes on the trainer
TrainerCalls(c, ckpt_path) ==
    IF c.test_ckpt # None
    THEN <<Call("validate", <<"test_dl", c.test_ckpt>>)>>
    ELSE <<Call("fit", <<"train_dl", "val_dl", ckpt_path>>)>>

\* lines 274-279: evaluation or training
RunTrainer(p) ==
    LET r == proc[p] IN
    /\ r.pc = "run"
    /\ proc' = [proc EXCEPT ![p] =
                   [r EXCEPT !.pc = "done",
                             !.calls = @ \o TrainerCalls(r.cfg, r.ckpt_path)]]
    /\ UNCHANGED <<dirs, files, dirUsers, tasks, started, ckpt, csv, cfgFolds>>

\* one step of run p
Step(p) ==
    \/ CheckWeights(p)
    \/ IsDir(p)
    \/ MakeDirs(p)
    \/ Glob1(p)
    \/ TaskCreate(p)
    \/ WriteMarker(p)
    \/ Glob2(p)
    \/ TaskInit(p)
    \/ BuildModel(p)
    \/ StartLogger(p)
    \/ SetSeed(p)
    \/ PrepareData(p)
    \/ BuildTrainer(p)
    \/ RunTrainer(p)

-----------------------------------------------------------------------------
(* Specifications *)

DefaultCkpt ==
    <<[k |-> TeacherPrefix \o KeyW, v |-> 2],
      [k |-> ModulePrefix \o KeyB, v |-> 3]>>
DefaultCsv == <<0, 1>>
DefaultFolds == [s \in Sets |-> IF s = "train" THEN {0} ELSE {1}]

\* nothing exists yet and no run has started
Init ==
    /\ proc = [p \in Procs |-> IdleRun]
    /\ dirs = {}
    /\ files = {}
    /\ dirUsers = [d \in ModelDirs |-> {}]
    /\ tasks = {}
    /\ started = 0
    /\ ckpt = DefaultCkpt
    /\ csv = DefaultCsv
    /\ cfgFolds = DefaultFolds

\* runs that do not overlap: each starts when the one before has ended
Next ==
    \/ \E c \in Configs : Start(1, c)
    \/ Step(1)

Spec == Init /\ [][Next]_vars

\* two runs with clearml, each started once, that overlap in any way
NextConc ==
    \E p \in Procs :
        \/ \E c \in ConcConfigs : proc[p].pc = "idle" /\ Start(p, c)
        \/ Step(p)

SpecConc == Init /\ [][NextConc]_vars

\* the checkpoints: up to MaxEntries entries, no key twice (a dict)
Ckpts ==
    {e \in UNION {[1..n -> [k : CkptKeys, v : CkptVals]] : n \in 0..MaxEntries} :
        \A i, j \in DOMAIN e : e[i].k = e[j].k => i = j}

\* the fold columns of up to MaxRows rows
Csvs == UNION {[1..n -> Folds] : n \in 0..MaxRows}

\* a run without clearml that has come to line 80
AtModel(c) ==
    [IdleRun EXCEPT !.pc = "model", !.cfg = c, !.run = 1,
                    !.model_dir = Join(ResultsDir, c.experiment),
                    !.calls = <<Call("os.makedirs",
                                     <<Join(ResultsDir, c.experiment)>>)>>]

\* the same run when it has come to line 136
AtData(c) ==
    [AtModel(c) EXCEPT
        !.pc = "data", !.own = SeededInit, !.state_dict = SeededInit,
        !.backbone = SeededInit, !.seeded = TRUE,
        !.calls = @ \o ModelCalls(c)
                    \o <<Call("fuse_logger_start",
                              <<Join(ResultsDir, c.experiment)>>),
                         Call("Seed.set_seed", <<SeedValue, TRUE>>)>>]

\* every checkpoint and every configuration that passes the assert, at the
\* step that builds the model
InitWeights ==
    /\ \E c \in Configs :
          /\ WeightsAssertion(c)
          /\ ~c.clearml /\ c.backbone = "unet3d" /\ c.experiment = <<"a">>
          /\ proc = [p \in Procs |-> IF p = 1 THEN AtModel(c) ELSE IdleRun]
    /\ dirs = {ResultsDir, Join(ResultsDir, <<"a">>)}
    /\ files = {}
    /\ dirUsers = [d \in ModelDirs |-> {}]
    /\ tasks = {}
    /\ started = 1
    /\ ckpt \in Ckpts
    /\ csv = DefaultCsv
    /\ cfgFolds = DefaultFolds

NextWeights == BuildModel(1)

SpecWeights == InitWeights /\ [][NextWeights]_vars

\* every CSV file and every choice of the three fold lists, at the step
\* that selects the rows
InitFolds ==
    /\ proc = [p \in Procs |->
                  IF p = 1 THEN AtData([NoCfg EXCEPT !.experiment = <<"a">>])
                  ELSE IdleRun]
    /\ dirs = {ResultsDir, Join(ResultsDir, <<"a">>)}
    /\ files = {}
    /\ dirUsers = [d \in ModelDirs |->
                      IF d = Join(ResultsDir, <<"a">>) THEN {1} ELSE {}]
    /\ tasks = {}
    /\ started = 1
    /\ ckpt = DefaultCkpt
    /\ csv \in Csvs
    /\ cfgFolds \in [Sets -> SUBSET Folds]

NextFolds == PrepareData(1)

SpecFolds == InitFolds /\ [][NextFolds]_vars

-----------------------------------------------------------------------------
(* Properties *)

\* how many calls of op the log holds
Count(calls, op) == Cardinality({i \in DOMAIN calls : calls[i].op = op})

\* how many of the four paths c sets, path by path
PathsSet(c) ==
    (IF c.suprem_weights # None THEN 1 ELSE 0)
    + (IF c.dino_weights # None THEN 1 ELSE 0)
    + (IF c.resume_training_from # None THEN 1 ELSE 0)
    + (IF c.test_ckpt # None THEN 1 ELSE 0)

\* C1: a run whose configuration sets more than one of the four paths ends
\* in the assertion error having made no call at all (no makedirs, no
\* Task.create or Task.init, no model, loader or trainer, no fit or
\* validate) and having written under no model directory; a run whose
\* configuration sets at most one never ends in the assertion error.
C1_AssertBeforeAnyEffect ==
    \A p \in Procs :
        LET r == proc[p] IN
        /\ (r.pc \notin {"idle", "assert"} /\ PathsSet(r.cfg) > 1)
               => /\ r.pc = "failed"
                  /\ r.err = "AssertionError"
                  /\ r.calls = <<>>
                  /\ r.model_dir = <<>>
                  /\ \A d \in ModelDirs : r.run \notin dirUsers[d]
        /\ (r.pc # "idle" /\ PathsSet(r.cfg) <= 1)
               => r.err # "AssertionError"

\* a run with two paths set has failed on the assert, after an earlier run
\* created its model directory
C1_Witness ==
    /\ proc[1].pc = "failed"
    /\ proc[1].err = "AssertionError"
    /\ proc[1].cfg.dino_weights # None
    /\ proc[1].cfg.test_ckpt # None
    /\ proc[1].run = 2
    /\ dirs # {}

\* C2: a run that has reached the trainer has called neither fit nor
\* validate before line 274 and ends with one call in all: validate on the
\* test data loader with ckpt_path = test_ckpt when test_ckpt is set, fit on
\* the train and validation data loaders otherwise.
C2_ExactlyOneOfFitValidate ==
    \A p \in Procs :
        LET r == proc[p]
            n == Len(r.calls)
        IN
        /\ r.pc # "done"
               => Count(r.calls, "fit") + Count(r.calls, "validate") = 0
        /\ (r.pc = "done" /\ r.cfg.test_ckpt # None)
               => /\ Count(r.calls, "validate") = 1
                  /\ Count(r.calls, "fit") = 0
                  /\ r.calls[n].op = "validate"
                  /\ r.calls[n].args = <<"test_dl", r.cfg.test_ckpt>>
        /\ (r.pc = "done" /\ r.cfg.test_ckpt = None)
               => /\ Count(r.calls, "fit") = 1
                  /\ Count(r.calls, "validate") = 0
                  /\ r.calls[n].op = "fit"
                  /\ r.calls[n].args[1] = "train_dl"
                  /\ r.calls[n].args[2] = "val_dl"

\* a run with test_ckpt set has ended, having called validate
C2_Witness ==
    /\ proc[1].pc = "done"
    /\ proc[1].cfg.test_ckpt # None
    /\ Count(proc[1].calls, "validate") = 1

\* the entries of the checkpoint that the dino branch keeps
DinoKept == {i \in DOMAIN ckpt : Contains(ckpt[i].k, TeacherPrefix)}

\* the key an entry gets: prefix dropped for the branch taken
ReKeyed(c, i) ==
    IF c.dino_weights # None THEN Replace(ckpt[i].k, TeacherPrefix)
    ELSE Replace(ckpt[i].k, ModulePrefix)

\* the entries the branch taken reads
Kept(c) == IF c.dino_weights # None THEN DinoKept ELSE DOMAIN ckpt

\* the run has built its model
ModelBuilt(r) == r.pc = "logger"

\* C3 as it is stated: with dino_weights or suprem_weights set, the state
\* dict loaded has exactly the re-keyed keys of the entries kept and holds,
\* for every entry kept, that entry's value under its new key; with
\* neither set it is the backbone's own state dict and the load changes no
\* weight.
C3_EveryEntryReKeyed ==
    \A p \in Procs :
        LET r == proc[p]
            c == r.cfg
        IN
        ModelBuilt(r) =>
            IF c.dino_weights # None \/ c.suprem_weights # None
            THEN /\ DOMAIN r.state_dict = {ReKeyed(c, i) : i \in Kept(c)}
                 /\ \A i \in Kept(c) : r.state_dict[ReKeyed(c, i)] = ckpt[i].v
            ELSE r.state_dict = r.own /\ r.backbone = r.own

\* C3, amended: as above, but a key that several kept entries are re-keyed
\* to holds the value of the last of them in the checkpoint's order; and
\* the load gives the backbone the state dict's value for each of its own
\* keys the state dict holds, leaving its other weights as constructed.
C3_LastEntryWins ==
    \A p \in Procs :
        LET r == proc[p]
            c == r.cfg
        IN
        ModelBuilt(r) =>
            /\ IF c.dino_weights # None \/ c.suprem_weights # None
               THEN /\ DOMAIN r.state_dict = {ReKeyed(c, i) : i \in Kept(c)}
                    /\ \A i \in Kept(c) :
                           (\A j \in Kept(c) :
                                ReKeyed(c, j) = ReKeyed(c, i) => j <= i)
                               => r.state_dict[ReKeyed(c, i)] = ckpt[i].v
               ELSE r.state_dict = r.own /\ r.backbone = r.own
            /\ \A k \in BackboneKeys :
                   r.backbone[k] = IF k \in DOMAIN r.state_dict
                                   THEN r.state_dict[k] ELSE r.own[k]

\* the dino branch has loaded a checkpoint with two kept entries of
\* different values re-keyed to one backbone key, and the later one is loaded
C3_Witness ==
    /\ ModelBuilt(proc[1])
    /\ proc[1].cfg.dino_weights # None
    /\ \E i, j \in DinoKept :
          /\ i < j
          /\ ReKeyed(proc[1].cfg, i) = ReKeyed(proc[1].cfg, j)
          /\ ckpt[i].v # ckpt[j].v
          /\ proc[1].backbone[ReKeyed(proc[1].cfg, j)] = ckpt[j].v

\* C7: the rows given to the dataset of each set are the rows of the CSV
\* whose fold is in the set's fold list, each once and in the order of the
\* file; so a row is in two sets only if both lists hold its fold, and
\* with pairwise disjoint lists no row is shared.
C7_RowsSelectedByFold ==
    \A p \in Procs :
        LET r == proc[p] IN
        r.pc = "trainer" =>
            /\ \A s \in Sets :
                  LET rows == r.dfs[s] IN
                  /\ \A i \in DOMAIN rows :
                        rows[i] \in DOMAIN csv /\ csv[rows[i]] \in cfgFolds[s]
                  /\ \A n \in DOMAIN csv :
                        csv[n] \in cfgFolds[s]
                            => \E i \in DOMAIN rows : rows[i] = n
                  /\ \A i, j \in DOMAIN rows : i < j => rows[i] < rows[j]
                  /\ \E i \in DOMAIN r.calls :
                        /\ r.calls[i].op = "SegOAI.dataset"
                        /\ r.calls[i].args = <<s, rows>>
            /\ \A s, t \in Sets :
                  \A i \in DOMAIN r.dfs[s], j \in DOMAIN r.dfs[t] :
                      (s # t /\ r.dfs[s][i] = r.dfs[t][j])
                          => csv[r.dfs[s][i]] \in cfgFolds[s] \cap cfgFolds[t]

\* two rows of different folds are selected for train in the order of the
\* file, of which val shares one and test, disjoint from train, none
C7_Witness ==
    /\ proc[1].pc = "trainer"
    /\ Len(csv) = 2 /\ csv[1] # csv[2]
    /\ proc[1].dfs["train"] = <<1, 2>>
    /\ Len(proc[1].dfs["val"]) = 1
    /\ cfgFolds["test"] \cap cfgFolds["train"] = {}

\* the marker files in directory d
Markers(d) ==
    {f \in files : /\ Len(f) > Len(d) + Len(CmlidExt)
                   /\ SubSeq(f, 1, Len(d) + 1) = d \o <<Slash>>
                   /\ SubSeq(f, Len(f) - Len(CmlidExt) + 1, Len(f)) = CmlidExt}

\* the ids of the tasks created under name e
TaskIds(e) == {t.id : t \in {u \in tasks : u.name = e}}

\* the run is past the ClearML section of lines 59-77
PastClearml(r) ==
    r.pc \in {"model", "logger", "seed", "data", "trainer", "run", "done"}
    \/ (r.pc = "failed" /\ r.err \in {"NameError", "ConfigAttributeError"})

\* C4: over runs that do not overlap, for each experiment at most one task
\* is ever created and its model directory holds at most one marker; a run
\* with clearml that passes the assert gets through the ClearML section and
\* calls Task.init with the id of the task created for its experiment; a
\* run without clearml makes no Task.create, no Task.init and no marker.
C4_OneTaskPerModelDir ==
    /\ \A e \in ExperimentNames :
          /\ Cardinality(TaskIds(e)) <= 1
          /\ Cardinality(Markers(Join(ResultsDir, e))) <= 1
    /\ \A p \in Procs :
          LET r == proc[p] IN
          /\ r.cfg.clearml => r.err # "IndexError"
          /\ (r.cfg.clearml /\ PastClearml(r))
                 => \E i \in DOMAIN r.calls :
                        /\ r.calls[i].op = "Task.init"
                        /\ r.calls[i].args[1] \in TaskIds(r.cfg.experiment)
          /\ ~r.cfg.clearml
                 => /\ Count(r.calls, "Task.create") = 0
                    /\ Count(r.calls, "Task.init") = 0
                    /\ Count(r.calls, "open") = 0

\* C5: no model directory is written by two runs.
C5_NoSharedModelDir ==
    \A d \in ModelDirs : Cardinality(dirUsers[d]) <= 1

\* the calls that draw from the random generators: the construction of the
\* backbone and of the head's convolution, of the datasets and of the
\* shuffling data loader
DrawsRandom(call) ==
    \/ call.op \in {"UNet3D", "nn.Conv3d", "SegOAI.dataset"}
    \/ call.op = "DataLoader" /\ call.args[2] = "shuffle"

\* C6: in every run that has trained or evaluated, each call that draws
\* random values came after the call of
\* Seed.set_seed(1234, deterministic_mode=True).
C6_SeedBeforeRandomness ==
    \A p \in Procs :
        LET calls == proc[p].calls IN
        \A i \in DOMAIN calls :
            (proc[p].pc = "done" /\ DrawsRandom(calls[i]))
                => \E j \in 1..(i - 1) :
                       /\ calls[j].op = "Seed.set_seed"
                       /\ calls[j].args = <<SeedValue, TRUE>>

\* C8 as it is stated: when the two runs have the same experiment, neither
\* fails in os.makedirs, its model directory holds at most one marker, at
\* most one task is created for it, and the ids the two runs give Task.init
\* are the same.
C8_ConcurrentRunsShareOneTask ==
    \A p, q \in Procs :
        LET r == proc[p]
            o == proc[q]
        IN
        (p # q /\ r.pc # "idle" /\ o.pc # "idle"
              /\ r.cfg.experiment = o.cfg.experiment)
            => /\ r.err # "FileExistsError"
               /\ Cardinality(Markers(Join(ResultsDir, r.cfg.experiment))) <= 1
               /\ Cardinality(TaskIds(r.cfg.experiment)) <= 1
               /\ (PastClearml(r) /\ PastClearml(o))
                      => r.clearml_task_id = o.clearml_task_id

\* C8, amended: the two runs are not coordinated. Each creates at most one
\* task and writes at most one marker, the one named after the task it
\* created, so at most two tasks and two markers come to exist; every
\* marker names a created task, and every Task.init gets the id of a
\* created task; a run fails in os.makedirs only when the other run made
\* the directory after its own isdir test.
C8_AtMostOneTaskPerRun ==
    /\ Cardinality(tasks) <= Cardinality(Procs)
    /\ Cardinality(files) <= Cardinality(tasks)
    /\ \A f \in files : \E t \in tasks : f = MarkerPath(Join(ResultsDir, t.name), t.id)
    /\ \A p \in Procs :
          LET r == proc[p] IN
          /\ Count(r.calls, "Task.create") <= 1
          /\ Count(r.calls, "open") <= 1
          /\ \A i \in DOMAIN r.calls :
                /\ r.calls[i].op = "open"
                       => r.calls[i].args = <<MarkerPath(r.model_dir, r.task)>>
                /\ r.calls[i].op = "Task.init"
                       => \E t \in tasks : t.id = r.calls[i].args[1]
          /\ r.err = "FileExistsError"
                 => \E q \in Procs \ {p} :
                        \E i \in DOMAIN proc[q].calls :
                            /\ proc[q].calls[i].op = "os.makedirs"
                            /\ proc[q].calls[i].args = <<r.model_dir>>

\* both runs of one experiment have called Task.init, each with the id of
\* the task it created itself, and the directory holds two markers
C8_Witness ==
    /\ proc[1].cfg.experiment = proc[2].cfg.experiment
    /\ Count(proc[1].calls, "Task.init") = 1
    /\ Count(proc[2].calls, "Task.init") = 1
    /\ proc[1].clearml_task_id # proc[2].clearml_task_id
    /\ Cardinality(Markers(proc[1].model_dir)) = 2
    /\ Cardinality(tasks) = 2

=============================================================================
